---- MODULE Spec2Model ----
(***************************************************************************)
(* A model of the regex engine: parser.rs (pattern -> AST), codegen.rs     *)
(* (AST -> instructions, with backpatching) and evaluator.rs (the          *)
(* depth-first and the width backtracking VM), driven as do_matching       *)
(* (engine.rs) drives them.                                                *)
(*                                                                         *)
(* A behaviour follows one pattern `expr` through parse and get_code, then *)
(* one text `line` through eval under each strategy.  parse and get_code   *)
(* are functions of expr alone, so the two calls do_matching(expr, line,   *)
(* true) and do_matching(expr, line, false) share their run.               *)
(*                                                                         *)
(* Characters are one-character strings; a pattern or text is a sequence   *)
(* of them.  Addresses and positions are 0-based as in the source, so the  *)
(* instruction at address a is insts[a + 1].                               *)
(***************************************************************************)
EXTENDS Integers, Sequences, FiniteSets, TLC

VARIABLES
    expr,       \* the pattern handed to do_matching
    phase,      \* "parse" | "parsed" | "gen" | "coded" | "ready" | "eval" | "done"
    i,          \* parse: index of the next character (the enumerate() index)
    seq,        \* parse: current Seq context
    seq_or,     \* parse: current Or context
    stack,      \* parse: stack of saved (seq, seq_or) contexts
    state,      \* parse: ParseState, "Char" | "Escape"
    parsed,     \* the value parse returned, None while it runs
    gen_pc,     \* Generator.pc
    insts,      \* Generator.insts
    work,       \* codegen: the pending rest of the recursive gen_* calls
    code,       \* the value get_code returned, None until it runs
    line,       \* the text, as the Vec<char> of engine.rs line 79
    is_depth,   \* the strategy of the running eval
    e_pc,       \* evaluator: pc
    e_sp,       \* evaluator: sp
    calls,      \* eval_depth: the frames suspended in a Split
    ret,        \* eval_depth: the value a callee has just returned
    ctx,        \* eval_width: the context stack
    eval_res    \* what eval returned, per strategy

parseVars == <<i, seq, seq_or, stack, state, parsed>>

genVars == <<gen_pc, insts, work, code>>

evalVars == <<line, is_depth, e_pc, e_sp, calls, ret, ctx, eval_res>>

vars == <<expr, phase, i, seq, seq_or, stack, state, parsed, gen_pc, insts, work, code,
          line, is_depth, e_pc, e_sp, calls, ret, ctx, eval_res>>

-----------------------------------------------------------------------------
(* Bounds and the inputs drawn from them. *)

\* Every pattern over PatAlphabet of at most this length is an input.
MaxPatLen == 3

\* Every text over TextAlphabet of at most this length is an input.
MaxTextLen == 2

\* eval_depth recursion (frames suspended in a Split) is followed this deep.
MaxCalls == 14

\* eval_width's context stack is followed up to this length.
MaxCtx == 8

BSL == "\\"

PatAlphabet == {"a", "b", "+", "*", "?", "|", "(", ")", BSL}

TextAlphabet == {"a", "b"}

StringsUpTo(alphabet, n) == UNION {[1..k -> alphabet] : k \in 0..n}

\* The patterns of the repository's tests and doc comments, and of spec section 8,
\* with a few more that nest groups, chain alternatives and repeat a nullable body.
PatternCorpus ==
    { <<"a", "b", "c", "?">>,
      <<"(", "a", "b", "|", "c", "d", ")", "+">>,
      <<"(", "a", "b", "c", ")", "*">>,
      <<"a", "b", "c", "|", "d", "e", "f">>,
      <<BSL, "+">>,
      <<BSL, "q">>,
      <<"(", "a", "b", "c">>,
      <<"a", "b", "c", ")">>,
      <<"a", "(", "b", "|", "a", ")", "*", "b">>,
      <<"(", "a", "|", "b", "|", "c", ")", "?", "a">>,
      <<"(", "(", "a", ")", "b", ")", "+">>,
      <<"(", "a", "?", ")", "*", "b">>,
      <<"a", "(", ")", "b", BSL>> }

TextCorpus ==
    { <<"a", "c", "b">>,
      <<"a", "b", "c", "d", "c", "d">>,
      <<"a", "b", "c", "a", "b", "c">>,
      <<"d", "e", "f">>,
      <<"e", "f", "a">>,
      <<"+">>,
      <<"a", "b", "a", "b">>,
      <<"c", "a">> }

Patterns == StringsUpTo(PatAlphabet, MaxPatLen) \cup PatternCorpus

Texts == StringsUpTo(TextAlphabet, MaxTextLen) \cup TextCorpus

-----------------------------------------------------------------------------
(* Values: Option and Result, ParseError, AST, Instruction. *)

None == [tag |-> "None"]

Some(v) == [tag |-> "Some", v |-> v]

Ok(v) == [tag |-> "Ok", v |-> v]

Err(e) == [tag |-> "Err", e |-> e]

InvalidEscape(pos, c) == [kind |-> "InvalidEscape", pos |-> pos, c |-> c]

InvalidRightParen(pos) == [kind |-> "InvalidRightParen", pos |-> pos]

NoPrev(pos) == [kind |-> "NoPrev", pos |-> pos]

NoRightParen == [kind |-> "NoRightParen"]

Empty == [kind |-> "Empty"]

ASTChar(c) == [type |-> "Char", c |-> c]

ASTPlus(e) == [type |-> "Plus", e |-> e]

ASTStar(e) == [type |-> "Star", e |-> e]

ASTQuestion(e) == [type |-> "Question", e |-> e]

ASTOr(e1, e2) == [type |-> "Or", e1 |-> e1, e2 |-> e2]

ASTSeq(v) == [type |-> "Seq", v |-> v]

InstChar(c) == [op |-> "Char", c |-> c]

InstMatch == [op |-> "Match"]

InstJump(addr) == [op |-> "Jump", addr |-> addr]

InstSplit(addr1, addr2) == [op |-> "Split", addr1 |-> addr1, addr2 |-> addr2]

\* usize::MAX (main.rs: `let n: usize = !0`), held at the largest integer TLC has.
UsizeMax == 2147483647

\* helper::safe_add: n + d, or the error when the sum leaves usize.
SafeAdd(n, d, e) == IF n > UsizeMax - d THEN Err(e) ELSE Ok(n + d)

Reverse(s) == [k \in 1..Len(s) |-> s[Len(s) + 1 - k]]

Front(s) == SubSeq(s, 1, Len(s) - 1)

Last(s) == s[Len(s)]

-----------------------------------------------------------------------------
(* parser.rs *)

\* parse_plus_star_question had it wrapped the whole Seq context, not its last element
ParsePlusStarQuestionWhole(s, c, pos) ==
    IF Len(s) > 0
    THEN LET prev == ASTSeq(s)
             ast == CASE c = "+" -> ASTPlus(prev)
                      [] c = "*" -> ASTStar(prev)
                      [] c = "?" -> ASTQuestion(prev)
         IN  Ok(<<ast>>)
    ELSE Err(NoPrev(pos))

\* parse_plus_star_question had it reported the position counted from 1
ParsePlusStarQuestionPos1(s, c, pos) ==
    IF Len(s) > 0
    THEN LET prev == Last(s)
             ast == CASE c = "+" -> ASTPlus(prev)
                      [] c = "*" -> ASTStar(prev)
                      [] c = "?" -> ASTQuestion(prev)
         IN  Ok(Append(Front(s), ast))
    ELSE Err(NoPrev(pos + 1))

\* parse_plus_star_question: wrap the last element of seq, or NoPrev(pos).
ParsePlusStarQuestion(s, c, pos) ==
    IF Len(s) > 0
    THEN LET prev == Last(s)
             ast == CASE c = "+" -> ASTPlus(prev)
                      [] c = "*" -> ASTStar(prev)
                      [] c = "?" -> ASTQuestion(prev)
         IN  Ok(Append(Front(s), ast))
    ELSE Err(NoPrev(pos))

EscapeChars == {BSL, "(", ")", "|", "+", "*", "?"}

\* parse_escape
ParseEscape(pos, c) ==
    IF c \in EscapeChars THEN Ok(ASTChar(c)) ELSE Err(InvalidEscape(pos, c))

RECURSIVE FoldOrLoop(_, _)
\* the for loop of fold_or over the reversed rest
FoldOrLoop(rest, ast) ==
    IF rest = <<>> THEN ast
    ELSE FoldOrLoop(Tail(rest), ASTOr(Head(rest), ast))

\* fold_or had it not reversed the rest before the loop
FoldOrNoReverse(so) ==
    IF Len(so) > 1
    THEN Some(FoldOrLoop(Front(so), Last(so)))
    ELSE IF Len(so) = 1 THEN Some(so[1]) ELSE None

\* fold_or
FoldOr(so) ==
    IF Len(so) > 1
    THEN Some(FoldOrLoop(Reverse(Front(so)), Last(so)))
    ELSE IF Len(so) = 1 THEN Some(so[1]) ELSE None

\* parse returns Err(e): do_matching's `?` returns it at once.
ParseFail(e) ==
    /\ parsed' = Err(e)
    /\ phase' = "done"
    /\ UNCHANGED <<i, seq, seq_or, stack, state>>

\* the scanner is in its loop, in mode m, at character c
Scanning(m) == phase = "parse" /\ i < Len(expr) /\ state = m

Cur == expr[i + 1]

\* '+', '*', '?'
ParsePSQ ==
    /\ Scanning("Char")
    /\ Cur \in {"+", "*", "?"}
    /\ LET r == ParsePlusStarQuestion(seq, Cur, i)
       IN  IF r.tag = "Ok"
           THEN /\ seq' = r.v
                /\ i' = i + 1
                /\ UNCHANGED <<seq_or, stack, state, parsed, phase>>
           ELSE ParseFail(r.e)
    /\ UNCHANGED <<expr, genVars, evalVars>>

\* '(' saves the contexts and empties them
ParseLeftParen ==
    /\ Scanning("Char")
    /\ Cur = "("
    /\ stack' = Append(stack, <<seq, seq_or>>)
    /\ seq' = <<>>
    /\ seq_or' = <<>>
    /\ i' = i + 1
    /\ UNCHANGED <<state, parsed, phase, expr, genVars, evalVars>>

\* ')' had it appended the group's branches one by one instead of their fold
CloseGroupFlat(s, so, prev, prev_or) ==
    LET so2 == IF s # <<>> THEN Append(so, ASTSeq(s)) ELSE so
    IN  <<prev \o so2, prev_or>>

\* what ')' leaves in (seq, seq_or) given the popped (prev, prev_or)
CloseGroup(s, so, prev, prev_or) ==
    LET so2 == IF s # <<>> THEN Append(so, ASTSeq(s)) ELSE so
        f == FoldOr(so2)
    IN  <<IF f.tag = "Some" THEN Append(prev, f.v) ELSE prev, prev_or>>

\* ')'
ParseRightParen ==
    /\ Scanning("Char")
    /\ Cur = ")"
    /\ IF stack # <<>>
       THEN LET top == Last(stack)
                r == CloseGroup(seq, seq_or, top[1], top[2])
            IN  /\ stack' = Front(stack)
                /\ seq' = r[1]
                /\ seq_or' = r[2]
                /\ i' = i + 1
                /\ UNCHANGED <<state, parsed, phase>>
       ELSE ParseFail(InvalidRightParen(i))
    /\ UNCHANGED <<expr, genVars, evalVars>>

\* '|'
ParseBar ==
    /\ Scanning("Char")
    /\ Cur = "|"
    /\ IF seq = <<>>
       THEN ParseFail(NoPrev(i))
       ELSE /\ seq_or' = Append(seq_or, ASTSeq(seq))
            /\ seq' = <<>>
            /\ i' = i + 1
            /\ UNCHANGED <<stack, state, parsed, phase>>
    /\ UNCHANGED <<expr, genVars, evalVars>>

\* '\\' starts an escape sequence
ParseBackslash ==
    /\ Scanning("Char")
    /\ Cur = BSL
    /\ state' = "Escape"
    /\ i' = i + 1
    /\ UNCHANGED <<seq, seq_or, stack, parsed, phase, expr, genVars, evalVars>>

\* any other character is a literal
ParseLiteral ==
    /\ Scanning("Char")
    /\ Cur \notin {"+", "*", "?", "(", ")", "|", BSL}
    /\ seq' = Append(seq, ASTChar(Cur))
    /\ i' = i + 1
    /\ UNCHANGED <<seq_or, stack, state, parsed, phase, expr, genVars, evalVars>>

\* ParseState::Escape
ParseEscaped ==
    /\ Scanning("Escape")
    /\ LET r == ParseEscape(i, Cur)
       IN  IF r.tag = "Ok"
           THEN /\ seq' = Append(seq, r.v)
                /\ state' = "Char"
                /\ i' = i + 1
                /\ UNCHANGED <<seq_or, stack, parsed, phase>>
           ELSE ParseFail(r.e)
    /\ UNCHANGED <<expr, genVars, evalVars>>

\* the end of parse had it not looked at the stack
ParseResultNoStackCheck(s, so, st) ==
    LET so2 == IF s # <<>> THEN Append(so, ASTSeq(s)) ELSE so
        f == FoldOr(so2)
    IN  IF f.tag = "Some" THEN Ok(f.v) ELSE Err(Empty)

\* what parse returns once the loop is over
ParseResult(s, so, st) ==
    IF st # <<>> THEN Err(NoRightParen)
    ELSE LET so2 == IF s # <<>> THEN Append(so, ASTSeq(s)) ELSE so
             f == FoldOr(so2)
         IN  IF f.tag = "Some" THEN Ok(f.v) ELSE Err(Empty)

\* the end of the pattern
ParseEnd ==
    /\ phase = "parse"
    /\ i = Len(expr)
    /\ parsed' = ParseResult(seq, seq_or, stack)
    /\ phase' = IF parsed'.tag = "Ok" THEN "parsed" ELSE "done"
    /\ UNCHANGED <<i, seq, seq_or, stack, state, expr, genVars, evalVars>>

Parse ==
    \/ ParsePSQ
    \/ ParseLeftParen
    \/ ParseRightParen
    \/ ParseBar
    \/ ParseBackslash
    \/ ParseLiteral
    \/ ParseEscaped
    \/ ParseEnd

-----------------------------------------------------------------------------
(* codegen.rs.  A generator value g is [pc, insts]; each operator below is   *)
(* one straight-line piece of a gen_* method and yields Ok(g') or Err(e).    *)
(* The recursion of gen_expr is kept in `work`: the head is what runs next,  *)
(* and a method that calls gen_expr leaves its own remainder behind it.      *)

Push(g, inst) == [g EXCEPT !.insts = Append(g.insts, inst)]

\* inc_pc
IncPc(g) ==
    LET r == SafeAdd(g.pc, 1, "PCOverflow")
    IN  IF r.tag = "Ok" THEN Ok([g EXCEPT !.pc = r.v]) ELSE r

\* insts.get_mut(addr) seen as a Split whose second target is set to g.pc
PatchSplit(g, addr, e) ==
    IF addr < Len(g.insts) /\ g.insts[addr + 1].op = "Split"
    THEN Ok([g EXCEPT !.insts[addr + 1].addr2 = g.pc])
    ELSE Err(e)

\* insts.get_mut(addr) seen as a Jump whose target is set to g.pc
PatchJump(g, addr, e) ==
    IF addr < Len(g.insts) /\ g.insts[addr + 1].op = "Jump"
    THEN Ok([g EXCEPT !.insts[addr + 1].addr = g.pc])
    ELSE Err(e)

\* gen_char had it not called inc_pc
GenCharCodeNoInc(g, c) == Ok(Push(g, InstChar(c)))

\* gen_char
GenCharCode(g, c) == IncPc(Push(g, InstChar(c)))

\* gen_question, gen_star, gen_or up to their first gen_expr: split L1, 0
GenSplitHead(g) ==
    LET r == IncPc(g)
    IN  IF r.tag = "Ok" THEN Ok(Push(r.v, InstSplit(r.v.pc, 0))) ELSE r

\* gen_question after gen_expr(e)
GenQuestionPatch(g, split_addr) == PatchSplit(g, split_addr, "FailQuestion")

\* gen_star had it set L3 to L2, the start of e's code
GenStarTailExitAtBody(g, l1) ==
    LET r == IncPc(g)
    IN  IF r.tag = "Ok"
        THEN LET g2 == Push(r.v, InstJump(l1))
             IN  IF l1 < Len(g2.insts) /\ g2.insts[l1 + 1].op = "Split"
                 THEN Ok([g2 EXCEPT !.insts[l1 + 1].addr2 = l1 + 1])
                 ELSE Err("FailStar")
        ELSE r

\* gen_star after gen_expr(e): jump L1, then L3 is set
GenStarTail(g, l1) ==
    LET r == IncPc(g)
    IN  IF r.tag = "Ok" THEN PatchSplit(Push(r.v, InstJump(l1)), l1, "FailStar") ELSE r

\* gen_plus had it taken L2 one past the address after the Split
GenPlusTailOffByOne(g, l1) ==
    LET r == IncPc(g)
    IN  IF r.tag = "Ok" THEN Ok(Push(r.v, InstSplit(l1, r.v.pc + 1))) ELSE r

\* gen_plus after gen_expr(e): split L1, L2
GenPlusTail(g, l1) ==
    LET r == IncPc(g)
    IN  IF r.tag = "Ok" THEN Ok(Push(r.v, InstSplit(l1, r.v.pc))) ELSE r

\* gen_or had it set L2 before inc_pc, to the address of the Jump
GenOrMidAtJump(g, split_addr) ==
    LET r == PatchSplit(Push(g, InstJump(0)), split_addr, "FailOr")
    IN  IF r.tag = "Ok" THEN IncPc(r.v) ELSE r

\* gen_or between gen_expr(e1) and gen_expr(e2): jump 0, then L2 is set
GenOrMid(g, split_addr) ==
    LET r == IncPc(Push(g, InstJump(0)))
    IN  IF r.tag = "Ok" THEN PatchSplit(r.v, split_addr, "FailOr") ELSE r

\* gen_or after gen_expr(e2): L3 is set
GenOrEnd(g, jmp_addr) == PatchJump(g, jmp_addr, "FailOr")

\* gen_code after gen_expr(ast)
GenCodeTail(g) ==
    LET r == IncPc(g)
    IN  IF r.tag = "Ok" THEN Ok(Push(r.v, InstMatch)) ELSE r

G == [pc |-> gen_pc, insts |-> insts]

TaskExpr(ast) == [t |-> "expr", ast |-> ast]

TaskAt(t, addr) == [t |-> t, addr |-> addr]

TaskOrMid(addr, e2) == [t |-> "or_mid", addr |-> addr, e2 |-> e2]

\* the step leaves generator r.v and pending work w, or get_code returns Err
GenResult(r, w) ==
    IF r.tag = "Ok"
    THEN /\ gen_pc' = r.v.pc
         /\ insts' = r.v.insts
         /\ work' = w
         /\ UNCHANGED <<code, phase>>
    ELSE /\ code' = r
         /\ phase' = "done"
         /\ UNCHANGED <<gen_pc, insts, work>>

\* get_code: Generator::default(), then gen_code
GetCode ==
    /\ phase = "parsed"
    /\ phase' = "gen"
    /\ gen_pc' = 0
    /\ insts' = <<>>
    /\ work' = <<TaskExpr(parsed.v)>>
    /\ UNCHANGED <<code, expr, parseVars, evalVars>>

\* gen_expr is running on an AST of this variant
GenAt(type) == phase = "gen" /\ work # <<>> /\ Head(work).t = "expr" /\ Head(work).ast.type = type

\* a gen_* method is resuming after a gen_expr it called
GenBack(t) == phase = "gen" /\ work # <<>> /\ Head(work).t = t

GenChar ==
    /\ GenAt("Char")
    /\ GenResult(GenCharCode(G, Head(work).ast.c), Tail(work))
    /\ UNCHANGED <<expr, parseVars, evalVars>>

\* gen_seq: gen_expr on each element in turn
GenSeq ==
    /\ GenAt("Seq")
    /\ LET v == Head(work).ast.v
       IN  work' = [k \in 1..Len(v) |-> TaskExpr(v[k])] \o Tail(work)
    /\ UNCHANGED <<gen_pc, insts, code, phase, expr, parseVars, evalVars>>

GenQuestion ==
    /\ GenAt("Question")
    /\ GenResult(GenSplitHead(G),
                 <<TaskExpr(Head(work).ast.e), TaskAt("question", gen_pc)>> \o Tail(work))
    /\ UNCHANGED <<expr, parseVars, evalVars>>

GenQuestionBack ==
    /\ GenBack("question")
    /\ GenResult(GenQuestionPatch(G, Head(work).addr), Tail(work))
    /\ UNCHANGED <<expr, parseVars, evalVars>>

\* gen_star had it remembered L1 after inc_pc
StarL1AfterSplit(pc) == pc + 1

\* the address gen_star remembers as L1
StarL1(pc) == pc

GenStar ==
    /\ GenAt("Star")
    /\ GenResult(GenSplitHead(G),
                 <<TaskExpr(Head(work).ast.e), TaskAt("star", StarL1(gen_pc))>> \o Tail(work))
    /\ UNCHANGED <<expr, parseVars, evalVars>>

GenStarBack ==
    /\ GenBack("star")
    /\ GenResult(GenStarTail(G, Head(work).addr), Tail(work))
    /\ UNCHANGED <<expr, parseVars, evalVars>>

GenPlus ==
    /\ GenAt("Plus")
    /\ work' = <<TaskExpr(Head(work).ast.e), TaskAt("plus", gen_pc)>> \o Tail(work)
    /\ UNCHANGED <<gen_pc, insts, code, phase, expr, parseVars, evalVars>>

GenPlusBack ==
    /\ GenBack("plus")
    /\ GenResult(GenPlusTail(G, Head(work).addr), Tail(work))
    /\ UNCHANGED <<expr, parseVars, evalVars>>

GenOr ==
    /\ GenAt("Or")
    /\ GenResult(GenSplitHead(G),
                 <<TaskExpr(Head(work).ast.e1), TaskOrMid(gen_pc, Head(work).ast.e2)>>
                     \o Tail(work))
    /\ UNCHANGED <<expr, parseVars, evalVars>>

GenOrBack1 ==
    /\ GenBack("or_mid")
    /\ GenResult(GenOrMid(G, Head(work).addr),
                 <<TaskExpr(Head(work).e2), TaskAt("or_end", gen_pc)>> \o Tail(work))
    /\ UNCHANGED <<expr, parseVars, evalVars>>

GenOrBack2 ==
    /\ GenBack("or_end")
    /\ GenResult(GenOrEnd(G, Head(work).addr), Tail(work))
    /\ UNCHANGED <<expr, parseVars, evalVars>>

\* gen_code once gen_expr(ast) is back: Match is appended and get_code returns insts
GenCode ==
    /\ phase = "gen"
    /\ work = <<>>
    /\ LET r == GenCodeTail(G)
       IN  IF r.tag = "Ok"
           THEN /\ gen_pc' = r.v.pc
                /\ insts' = r.v.insts
                /\ code' = Ok(r.v.insts)
                /\ phase' = "coded"
           ELSE /\ code' = r
                /\ phase' = "done"
                /\ UNCHANGED <<gen_pc, insts>>
    /\ UNCHANGED <<work, expr, parseVars, evalVars>>

Generate ==
    \/ GetCode
    \/ GenChar
    \/ GenSeq
    \/ GenQuestion
    \/ GenQuestionBack
    \/ GenStar
    \/ GenStarBack
    \/ GenPlus
    \/ GenPlusBack
    \/ GenOr
    \/ GenOrBack1
    \/ GenOrBack2
    \/ GenCode

-----------------------------------------------------------------------------
(* evaluator.rs *)

\* inst.get(pc)
Fetch(pc) == IF pc < Len(insts) THEN Some(insts[pc + 1]) ELSE None

\* line.get(sp)
LineGet(sp) == IF sp < Len(line) THEN Some(line[sp + 1]) ELSE None

\* an evaluator loop goes on at (pc, sp) with context stack cx
Go(pc, sp, cx) == [k |-> "go", pc |-> pc, sp |-> sp, ctx |-> cx]

\* an evaluator returns r
Return(r) == [k |-> "ret", r |-> r]

\* a matched Char had it advanced pc alone
AdvancePcOnly(pc, sp, cx) ==
    LET p == SafeAdd(pc, 1, "PCOverflow")
    IN  IF p.tag = "Err" THEN Return(p) ELSE Go(p.v, sp, cx)

\* pc and sp each advance by safe_add
Advance(pc, sp, cx) ==
    LET p == SafeAdd(pc, 1, "PCOverflow")
        s == SafeAdd(sp, 1, "SPOverflow")
    IN  IF p.tag = "Err" THEN Return(p)
        ELSE IF s.tag = "Err" THEN Return(s)
        ELSE Go(p.v, s.v, cx)

\* eval_depth, Instruction::Char(c)
DepthChar(c, pc, sp) ==
    LET sp_c == LineGet(sp)
    IN  IF sp_c.tag = "Some"
        THEN IF c = sp_c.v THEN Advance(pc, sp, <<>>) ELSE Return(Ok(FALSE))
        ELSE Return(Ok(FALSE))

\* pop_ctx had it taken the oldest context (pop_front)
PopCtxFront(cx) ==
    IF cx # <<>>
    THEN Go(Head(cx)[1], Head(cx)[2], Tail(cx))
    ELSE Return(Err("InvalidContext"))

\* pop_ctx
PopCtx(cx) ==
    IF cx # <<>>
    THEN Go(Last(cx)[1], Last(cx)[2], Front(cx))
    ELSE Return(Err("InvalidContext"))

\* eval_width's Char had it popped on a mismatch without looking at ctx.is_empty()
WidthCharPopUnchecked(c, pc, sp, cx) ==
    LET sp_c == LineGet(sp)
    IN  IF sp_c.tag = "Some"
        THEN IF c = sp_c.v THEN Advance(pc, sp, cx) ELSE PopCtx(cx)
        ELSE Go(pc, sp, cx)

\* eval_width, Instruction::Char(c).  The `if let Some(sp_c) = line.get(sp)` has no
\* else: with no character at sp the arm does nothing, and the iteration ends with
\* pc, sp and ctx as they were, so the loop comes back to this very state.
WidthChar(c, pc, sp, cx) ==
    LET sp_c == LineGet(sp)
    IN  IF sp_c.tag = "Some"
        THEN IF c = sp_c.v THEN Advance(pc, sp, cx)
             ELSE IF cx = <<>> THEN Return(Ok(FALSE)) ELSE PopCtx(cx)
        ELSE Go(pc, sp, cx)

\* the end of an iteration had it pushed (pc, sp) and left it there
WidthRoundTripPushOnly(pc, sp, cx) ==
    IF cx # <<>> THEN Go(pc, sp, Append(cx, <<pc, sp>>)) ELSE Go(pc, sp, cx)

\* eval_width, the end of an iteration: push (pc, sp), then pop_ctx
WidthRoundTrip(pc, sp, cx) ==
    IF cx # <<>> THEN PopCtx(Append(cx, <<pc, sp>>)) ELSE Go(pc, sp, cx)

\* Split had it saved the position after the current one
WidthSplitSaveNext(addr1, addr2, sp, cx) == Go(addr1, sp, Append(cx, <<addr2, sp + 1>>))

\* eval_width, Instruction::Split: `continue` skips the end of the iteration
WidthSplit(addr1, addr2, sp, cx) == Go(addr1, sp, Append(cx, <<addr2, sp>>))

\* one iteration of eval_width's loop
WidthIter(pc, sp, cx) ==
    LET next == Fetch(pc)
    IN  IF next.tag = "None" THEN Return(Err("InvalidPC"))
        ELSE LET inst == next.v
                 r == CASE inst.op = "Char" -> WidthChar(inst.c, pc, sp, cx)
                        [] inst.op = "Match" -> Return(Ok(TRUE))
                        [] inst.op = "Jump" -> Go(inst.addr, sp, cx)
                        [] inst.op = "Split" -> WidthSplit(inst.addr1, inst.addr2, sp, cx)
             IN  IF r.k = "go" /\ inst.op # "Split"
                 THEN WidthRoundTrip(r.pc, r.sp, r.ctx)
                 ELSE r

\* engine.rs line 79: the text becomes a Vec<char>
CollectLine ==
    /\ phase = "coded"
    /\ line' \in Texts
    /\ phase' = "ready"
    /\ UNCHANGED <<is_depth, e_pc, e_sp, calls, ret, ctx, eval_res, expr, parseVars, genVars>>

\* eval(inst, line, d): eval_depth(inst, line, 0, 0) or eval_width(inst, line)
Eval ==
    /\ phase = "ready"
    /\ \E d \in BOOLEAN :
          /\ eval_res[d] = None
          /\ is_depth' = d
    /\ e_pc' = 0
    /\ e_sp' = 0
    /\ calls' = <<>>
    /\ ret' = None
    /\ ctx' = <<>>
    /\ phase' = "eval"
    /\ UNCHANGED <<line, eval_res, expr, parseVars, genVars>>

\* eval returns r to do_matching
EvalReturns(r) ==
    /\ eval_res' = [eval_res EXCEPT ![is_depth] = r]
    /\ phase' = "ready"

\* a call of eval_depth returns r: to eval, or to the Split that made the call
DepthReturns(r) ==
    IF calls = <<>>
    THEN EvalReturns(r) /\ UNCHANGED <<ret, calls, e_pc, e_sp>>
    ELSE ret' = r /\ UNCHANGED <<eval_res, phase, calls, e_pc, e_sp>>

\* the frame a Split suspends while its first call runs: its own pc (the address
\* of the Split) and sp, and the second target still to be tried
Frame(addr2, sp) == [pc |-> e_pc, addr2 |-> addr2, sp |-> sp, second |-> FALSE]

\* eval_depth, Instruction::Split: the call eval_depth(inst, line, addr1, sp)
DepthSplit(addr1, addr2) ==
    /\ Len(calls) < MaxCalls
    /\ calls' = Append(calls, Frame(addr2, e_sp))
    /\ e_pc' = addr1
    /\ UNCHANGED <<e_sp, ret, eval_res, phase>>

\* one iteration of eval_depth's loop, in the innermost call
EvalDepthStep ==
    /\ phase = "eval"
    /\ is_depth
    /\ ret = None
    /\ LET next == Fetch(e_pc)
       IN  IF next.tag = "None" THEN DepthReturns(Err("InvalidPC"))
           ELSE LET inst == next.v
                IN  CASE inst.op = "Char" ->
                            LET r == DepthChar(inst.c, e_pc, e_sp)
                            IN  IF r.k = "go"
                                THEN /\ e_pc' = r.pc
                                     /\ e_sp' = r.sp
                                     /\ UNCHANGED <<calls, ret, eval_res, phase>>
                                ELSE DepthReturns(r.r)
                      [] inst.op = "Match" -> DepthReturns(Ok(TRUE))
                      [] inst.op = "Jump" ->
                            /\ e_pc' = inst.addr
                            /\ UNCHANGED <<e_sp, calls, ret, eval_res, phase>>
                      [] inst.op = "Split" -> DepthSplit(inst.addr1, inst.addr2)
    /\ UNCHANGED <<line, is_depth, ctx, expr, parseVars, genVars>>

\* the Split of eval_depth had it returned its first call's value whatever it was
SplitAfterNoSecond(f, v) == "return"

\* what the Split of frame f does with the value v its call returned:
\* "second" makes the call eval_depth(inst, line, addr2, sp), "return" returns v
SplitAfter(f, v) ==
    IF v.tag = "Ok" /\ v.v = FALSE /\ ~f.second THEN "second" ELSE "return"

\* eval_depth, Instruction::Split, once a call it made has returned:
\* `eval_depth(.., addr1, sp)? || eval_depth(.., addr2, sp)?`
EvalDepthBack ==
    /\ phase = "eval"
    /\ is_depth
    /\ ret # None
    /\ LET f == Last(calls)
       IN  IF SplitAfter(f, ret) = "second"
           THEN /\ calls' = Append(Front(calls), [f EXCEPT !.second = TRUE])
                /\ e_pc' = f.addr2
                /\ e_sp' = f.sp
                /\ ret' = None
                /\ UNCHANGED <<eval_res, phase>>
           ELSE /\ calls' = Front(calls)
                /\ IF calls' = <<>>
                   THEN EvalReturns(ret) /\ ret' = None
                   ELSE UNCHANGED <<ret, eval_res, phase>>
                /\ UNCHANGED <<e_pc, e_sp>>
    /\ UNCHANGED <<line, is_depth, ctx, expr, parseVars, genVars>>

\* one iteration of eval_width's loop
EvalWidthStep ==
    /\ phase = "eval"
    /\ ~is_depth
    /\ Len(ctx) < MaxCtx
    /\ LET r == WidthIter(e_pc, e_sp, ctx)
       IN  IF r.k = "go"
           THEN /\ e_pc' = r.pc
                /\ e_sp' = r.sp
                /\ ctx' = r.ctx
                /\ UNCHANGED <<eval_res, phase>>
           ELSE /\ EvalReturns(r.r)
                /\ UNCHANGED <<e_pc, e_sp, ctx>>
    /\ UNCHANGED <<line, is_depth, calls, ret, expr, parseVars, genVars>>

Evaluate ==
    \/ CollectLine
    \/ Eval
    \/ EvalDepthStep
    \/ EvalDepthBack
    \/ EvalWidthStep

-----------------------------------------------------------------------------

Init ==
    /\ expr \in Patterns
    /\ phase = "parse"
    /\ i = 0
    /\ seq = <<>>
    /\ seq_or = <<>>
    /\ stack = <<>>
    /\ state = "Char"
    /\ parsed = None
    /\ gen_pc = 0
    /\ insts = <<>>
    /\ work = <<>>
    /\ code = None
    /\ line = <<>>
    /\ is_depth = TRUE
    /\ e_pc = 0
    /\ e_sp = 0
    /\ calls = <<>>
    /\ ret = None
    /\ ctx = <<>>
    /\ eval_res = [d \in BOOLEAN |-> None]

Next == Parse \/ Generate \/ Evaluate

Spec == Init /\ [][Next]_vars

\* a sequential program takes its next step whenever it has one
FairSpec == Spec /\ WF_vars(Next)

\* eval(inst, line, true): the strategy main.rs asks for
EvalDepthFirst == Eval /\ is_depth' = TRUE

\* do_matching(expr, line, true) on its own
DepthNext ==
    \/ Parse
    \/ Generate
    \/ CollectLine
    \/ EvalDepthFirst
    \/ EvalDepthStep
    \/ EvalDepthBack

DepthSpec == Init /\ [][DepthNext]_vars /\ WF_vars(DepthNext)

-----------------------------------------------------------------------------
(* The regular language of an AST, independently of the compiled code:      *)
(* Ends(a, t, s) is the set of positions e such that t[s+1..e] belongs to   *)
(* the language of a.                                                       *)

RECURSIVE Ends(_, _, _), EndsSeq(_, _, _), EndsClosure(_, _, _)

Ends(a, t, s) ==
    CASE a.type = "Char" -> IF s < Len(t) /\ t[s + 1] = a.c THEN {s + 1} ELSE {}
      [] a.type = "Or" -> Ends(a.e1, t, s) \cup Ends(a.e2, t, s)
      [] a.type = "Question" -> {s} \cup Ends(a.e, t, s)
      [] a.type = "Star" -> EndsClosure(a.e, t, {s})
      [] a.type = "Plus" -> EndsClosure(a.e, t, Ends(a.e, t, s))
      [] a.type = "Seq" -> EndsSeq(a.v, t, {s})

EndsSeq(v, t, S) ==
    IF v = <<>> THEN S
    ELSE EndsSeq(Tail(v), t, UNION {Ends(Head(v), t, x) : x \in S})

EndsClosure(e, t, S) ==
    LET S2 == S \cup UNION {Ends(e, t, x) : x \in S}
    IN  IF S2 = S THEN S ELSE EndsClosure(e, t, S2)

\* some prefix of t belongs to the language of a
PrefixInLanguage(a, t) == Ends(a, t, 0) # {}

RECURSIVE Nullable(_), NoNullableRepeat(_)

\* the empty string belongs to the language of a
Nullable(a) ==
    CASE a.type = "Char" -> FALSE
      [] a.type = "Or" -> Nullable(a.e1) \/ Nullable(a.e2)
      [] a.type = "Question" -> TRUE
      [] a.type = "Star" -> TRUE
      [] a.type = "Plus" -> Nullable(a.e)
      [] a.type = "Seq" -> \A k \in 1..Len(a.v) : Nullable(a.v[k])

\* no Star or Plus of a has a body that can match the empty string
NoNullableRepeat(a) ==
    CASE a.type = "Char" -> TRUE
      [] a.type = "Or" -> NoNullableRepeat(a.e1) /\ NoNullableRepeat(a.e2)
      [] a.type = "Question" -> NoNullableRepeat(a.e)
      [] a.type \in {"Star", "Plus"} -> ~Nullable(a.e) /\ NoNullableRepeat(a.e)
      [] a.type = "Seq" -> \A k \in 1..Len(a.v) : NoNullableRepeat(a.v[k])

\* the pattern parsed and none of its repetitions has a nullable body
Regular == parsed.tag = "Ok" /\ NoNullableRepeat(parsed.v)

\* eval has returned under strategy d
Returned(d) == eval_res[d].tag # "None"

PatAbcQ == <<"a", "b", "c", "?">>

PatAbCdPlus == <<"(", "a", "b", "|", "c", "d", ")", "+">>

PatAbcStar == <<"(", "a", "b", "c", ")", "*">>

TextAcb == <<"a", "c", "b">>

TextAbcdcd == <<"a", "b", "c", "d", "c", "d">>

TextAbcabc == <<"a", "b", "c", "a", "b", "c">>

-----------------------------------------------------------------------------
\* C1: for a parseable pattern without a nullable Star/Plus body, the depth-first
\* do_matching returns Ok(true) exactly when some prefix of the text belongs to
\* the pattern's language, and Ok(false) otherwise.
C1_DepthIsPrefixMatch ==
    (Regular /\ Returned(TRUE)) => eval_res[TRUE] = Ok(PrefixInLanguage(parsed.v, line))

\* C1 witness: a match with a repetition in the pattern, found on a proper prefix
\* only (the whole text is not in the language).
C1_Witness ==
    /\ Regular
    /\ eval_res[TRUE] = Ok(TRUE)
    /\ \E k \in 1..Len(parsed.v.v) : parsed.v.type = "Seq" /\ parsed.v.v[k].type = "Star"
    /\ Len(line) \notin Ends(parsed.v, line, 0)
    /\ Len(line) = 2

\* C2 (as claimed): on a parseable pattern without nullable repetition, once the
\* text is there both eval_depth and eval_width return, with the same boolean.
\* (An eval_width iteration that leaves pc, sp and ctx unchanged is a loop that
\* repeats for ever; in a behaviour it shows as the state never changing again.)
C2_BothReturnSame ==
    []((phase = "ready" /\ Regular)
         => <>(/\ Returned(TRUE)
               /\ Returned(FALSE)
               /\ eval_res[TRUE] = eval_res[FALSE]
               /\ eval_res[TRUE].tag = "Ok"))

\* C3 (as claimed): "abc?" against "acb" returns Ok(true) under both strategies.
C3_Original ==
    (expr = PatAbcQ /\ line = TextAcb)
        => \A d \in BOOLEAN : Returned(d) => eval_res[d] = Ok(TRUE)

\* C3 (amended): "abc?" against "acb" returns Ok(false) under both strategies.
C3_AbcQuestionOnAcb ==
    (expr = PatAbcQ /\ line = TextAcb)
        => \A d \in BOOLEAN : Returned(d) => eval_res[d] = Ok(FALSE)

\* C3 witness: both strategies have returned on "abc?" against "acb".
C3_Witness ==
    /\ expr = PatAbcQ
    /\ line = TextAcb
    /\ Returned(TRUE)
    /\ Returned(FALSE)

\* the pattern is (e)+ or (e)*: the AST is a Seq of that one repetition
IsRepeat(type) ==
    /\ parsed.tag = "Ok"
    /\ parsed.v.type = "Seq"
    /\ Len(parsed.v.v) = 1
    /\ parsed.v.v[1].type = type

RepeatBody == parsed.v.v[1].e

\* C4: depth-first, (e)+ matches only if one iteration of e matches at the start
\* of the text, and (e)* always matches; "(ab|cd)+" matches "abcdcd" and not "",
\* "(abc)*" matches "abcabc" and "".
C4_PlusNeedsOneStarNone ==
    Returned(TRUE) =>
        /\ (IsRepeat("Plus") /\ eval_res[TRUE] = Ok(TRUE))
              => PrefixInLanguage(RepeatBody, line)
        /\ IsRepeat("Star") => eval_res[TRUE] = Ok(TRUE)
        /\ (expr = PatAbCdPlus /\ line = TextAbcdcd) => eval_res[TRUE] = Ok(TRUE)
        /\ (expr = PatAbCdPlus /\ line = <<>>) => eval_res[TRUE] = Ok(FALSE)
        /\ (expr = PatAbcStar /\ line \in {TextAbcabc, <<>>}) => eval_res[TRUE] = Ok(TRUE)

\* C4 witness: "(abc)*" has matched the empty text with zero iterations.
C4_Witness ==
    /\ expr = PatAbcStar
    /\ line = <<>>
    /\ eval_res[TRUE] = Ok(TRUE)

-----------------------------------------------------------------------------
(* The pattern text read on its own, without the parser's state. *)

RECURSIVE EscapedAt(_, _)

\* the k-th character of s (k from 1) directly follows an escape-introducing backslash
EscapedAt(s, k) == k > 1 /\ s[k - 1] = BSL /\ ~EscapedAt(s, k - 1)

\* the number of unescaped ch among the first n characters of the pattern
Count(ch, n) == Cardinality({k \in 1..n : expr[k] = ch /\ ~EscapedAt(expr, k)})

\* the parser is about to read an unescaped ch at position i
AboutToRead(chars) ==
    /\ phase = "parse"
    /\ i < Len(expr)
    /\ expr[i + 1] \in chars
    /\ ~EscapedAt(expr, i + 1)

\* this step makes parse return the error of this kind
FailsWith(kind) == parsed.tag = "None" /\ parsed'.tag = "Err" /\ parsed'.e.kind = kind

\* do_matching has returned the parse error and nothing ran after parse
ReturnedParseError ==
    /\ phase = "done"
    /\ code = None
    /\ insts = <<>>
    /\ \A d \in BOOLEAN : eval_res[d] = None

-----------------------------------------------------------------------------
\* C5: reading an unescaped '+', '*', '?' or '|' at position i with an empty Seq
\* context makes parse fail with NoPrev(i); a pattern that starts with one of them
\* fails with NoPrev(0); and do_matching returns that error without running
\* get_code or eval.
C5_NoPrev ==
    [][/\ (AboutToRead({"+", "*", "?", "|"}) /\ seq = <<>>)
             => (parsed' = Err(NoPrev(i)) /\ phase' = "done")
       /\ (phase = "parse" /\ i = 0 /\ expr # <<>> /\ expr[1] \in {"+", "*", "?", "|"})
             => parsed' = Err(NoPrev(0))
       /\ FailsWith("NoPrev") => ReturnedParseError']_vars

\* C5 witness: NoPrev was returned for an operator right after '(' or '|'.
C5_Witness ==
    /\ parsed.tag = "Err"
    /\ parsed.e.kind = "NoPrev"
    /\ parsed.e.pos > 0
    /\ expr[parsed.e.pos] \in {"(", "|"}
    /\ ReturnedParseError

\* C6: the stack depth is the number of unescaped '(' read minus the number of
\* unescaped ')' read; InvalidRightParen(i) is returned exactly when an unescaped
\* ')' is read at i with an empty stack ("abc)": 3), NoRightParen exactly when the
\* pattern ends with a non-empty stack ("(abc"); neither returns an AST.
C6_ParenBalance ==
    /\ [](Len(stack) = Count("(", i) - Count(")", i))
    /\ [][/\ FailsWith("InvalidRightParen") <=> (AboutToRead({")"}) /\ stack = <<>>)
          /\ FailsWith("InvalidRightParen") => parsed'.e.pos = i
          /\ FailsWith("NoRightParen") <=> (phase = "parse" /\ i = Len(expr) /\ stack # <<>>)
          /\ (FailsWith("InvalidRightParen") \/ FailsWith("NoRightParen"))
                => ReturnedParseError']_vars
    /\ []((expr = <<"a", "b", "c", ")">> /\ phase = "done")
             => parsed = Err(InvalidRightParen(3)))
    /\ []((expr = <<"(", "a", "b", "c">> /\ phase = "done") => parsed = Err(NoRightParen))

\* C6 witness: an unmatched ')' was refused after a group had been opened and closed.
C6_Witness ==
    /\ parsed.tag = "Err"
    /\ parsed.e.kind = "InvalidRightParen"
    /\ Count("(", i) > 0
    /\ Count(")", i) = Count("(", i)

RECURSIVE CharLeaves(_), CharLeavesSeq(_)

\* the characters of the AST's Char leaves, left to right
CharLeaves(a) ==
    CASE a.type = "Char" -> <<a.c>>
      [] a.type = "Or" -> CharLeaves(a.e1) \o CharLeaves(a.e2)
      [] a.type \in {"Plus", "Star", "Question"} -> CharLeaves(a.e)
      [] a.type = "Seq" -> CharLeavesSeq(a.v)

CharLeavesSeq(v) == IF v = <<>> THEN <<>> ELSE CharLeaves(Head(v)) \o CharLeavesSeq(Tail(v))

\* the pattern's literal characters: the escaped ones, and the unescaped ones that
\* are no metacharacter
Literals(s) ==
    SelectSeq([k \in 1..Len(s) |->
                  IF EscapedAt(s, k) \/ s[k] \notin {"+", "*", "?", "(", ")", "|", BSL}
                  THEN s[k] ELSE ""],
              LAMBDA c : c # "")

\* C7 (as claimed): when parse returns an AST, every escape-introducing backslash
\* is directly followed by one of \ ( ) | + * ? and gave one AST::Char of that
\* character ("\+" matches "+"); any other character c at index p after a backslash
\* makes parse fail with InvalidEscape(p, c) ("\q": position 1).
C7_EscapesWellFormed ==
    /\ parsed.tag = "Ok" =>
          /\ \A k \in 1..Len(expr) :
                (expr[k] = BSL /\ ~EscapedAt(expr, k))
                    => (k < Len(expr) /\ expr[k + 1] \in EscapeChars)
          /\ CharLeaves(parsed.v) = Literals(expr)
    /\ (expr = <<BSL, "+">> /\ line = <<"+">> /\ Returned(TRUE)) => eval_res[TRUE] = Ok(TRUE)
    /\ (phase # "parse" /\ \E k \in 1..Len(expr) :
            /\ EscapedAt(expr, k)
            /\ expr[k] \notin EscapeChars
            /\ \A j \in 1..(k - 1) : parsed # Err(NoPrev(j - 1)) /\ parsed # Err(InvalidRightParen(j - 1)))
          => \E k \in 1..Len(expr) : parsed = Err(InvalidEscape(k - 1, expr[k]))
    /\ (expr = <<BSL, "q">> /\ phase # "parse") => parsed = Err(InvalidEscape(1, "q"))

-----------------------------------------------------------------------------
\* C8: in the sequence get_code returns, every Jump target and both targets of
\* every Split are addresses of that sequence, strictly below its length.
C8_TargetsValid ==
    code.tag = "Ok" =>
        /\ code.v = insts
        /\ \A k \in 1..Len(code.v) :
              /\ code.v[k].op = "Jump" => code.v[k].addr < Len(code.v)
              /\ code.v[k].op = "Split" =>
                    (code.v[k].addr1 < Len(code.v) /\ code.v[k].addr2 < Len(code.v))

\* C8 witness: a returned program with a Split and with a Jump that targets the
\* trailing Match, the highest address there is.
C8_Witness ==
    /\ code.tag = "Ok"
    /\ \E k \in 1..Len(code.v) :
          code.v[k].op = "Jump" /\ code.v[k].addr = Len(code.v) - 1
    /\ \E k \in 1..Len(code.v) : code.v[k].op = "Split"

\* a gen_* method that has still to patch the placeholder at addr
Pending(kinds, addr) ==
    \E k \in 1..Len(work) : work[k].t \in kinds /\ work[k].addr = addr

\* C9: get_code never fails with FailOr, FailStar or FailQuestion: wherever a
\* backpatch is still to come, the instruction at the remembered address is the
\* placeholder the same call emitted (Split(L1, 0), or Jump(0) for the join of an
\* alternation), and no placeholder is left when its call has returned.
C9_NoBackpatchError ==
    /\ code.tag = "Err" => code.e \notin {"FailOr", "FailStar", "FailQuestion"}
    /\ \A k \in 1..Len(work) :
          /\ work[k].t \in {"question", "star", "or_mid"} =>
                /\ work[k].addr < Len(insts)
                /\ insts[work[k].addr + 1] = InstSplit(work[k].addr + 1, 0)
          /\ work[k].t = "or_end" =>
                /\ work[k].addr < Len(insts)
                /\ insts[work[k].addr + 1] = InstJump(0)
    /\ \A a \in 0..(Len(insts) - 1) :
          (insts[a + 1].op = "Split" /\ insts[a + 1].addr2 = 0)
              => Pending({"question", "star", "or_mid"}, a)
    /\ code.tag = "Ok" => work = <<>>

\* C9 witness: the join of an alternation is about to be patched inside a Star
\* whose own Split still waits for its exit address.
C9_Witness ==
    /\ phase = "gen"
    /\ work # <<>>
    /\ Head(work).t = "or_end"
    /\ \E k \in 2..Len(work) : work[k].t = "star"

\* C10: on a compiled program neither evaluator returns an EvalError: the pc
\* stays inside the instruction sequence, pop_ctx never meets an empty stack, and
\* what eval returns is Ok(true) or Ok(false).
C10_NoEvalError ==
    /\ \A d \in BOOLEAN : eval_res[d].tag # "Err"
    /\ ret.tag # "Err"
    /\ phase = "eval" =>
          /\ e_pc < Len(insts)
          /\ \A k \in 1..Len(ctx) : ctx[k][1] < Len(insts)
          /\ ~is_depth => LET r == WidthIter(e_pc, e_sp, ctx)
                          IN  r.k = "ret" => r.r.tag = "Ok"

\* C10 witness: the width evaluator has backtracked through its context stack and
\* returned Ok(false), as the depth-first one did.
C10_Witness ==
    /\ eval_res[FALSE] = Ok(FALSE)
    /\ eval_res[TRUE] = Ok(FALSE)
    /\ parsed.v.type = "Or"

-----------------------------------------------------------------------------
\* the instruction eval_width is about to execute
WidthAt(op) ==
    /\ phase = "eval"
    /\ ~is_depth
    /\ Fetch(e_pc).tag = "Some"
    /\ Fetch(e_pc).v.op = op

\* the character at sp is not c, or there is no character at sp
CharFails(c, sp) == LineGet(sp).tag = "None" \/ LineGet(sp).v # c

\* C11 (as claimed): when eval_width executes Char(c) and the character at sp
\* differs from c or is absent, the iteration returns Ok(false) on an empty
\* context stack, and otherwise resumes from the most recently saved context.
C11_CharFailureBacktracks ==
    (WidthAt("Char") /\ CharFails(Fetch(e_pc).v.c, e_sp)) =>
        WidthIter(e_pc, e_sp, ctx) =
            IF ctx = <<>> THEN Return(Ok(FALSE))
            ELSE Go(Last(ctx)[1], Last(ctx)[2], Front(ctx))

\* C12 (as claimed): no parseable pattern has a Star or Plus with a nullable body,
\* and no Split is executed again, in a call made under an earlier execution of
\* it, unless the input position has strictly increased in between.
C12_LoopsMakeProgress ==
    /\ parsed.tag = "Ok" => NoNullableRepeat(parsed.v)
    /\ \A j, k \in 1..Len(calls) :
          (j < k /\ calls[j].pc = calls[k].pc) => calls[j].sp < calls[k].sp

-----------------------------------------------------------------------------
\* the addresses one Jump or Split step leads to from address a
EpsNext(a) ==
    LET inst == insts[a + 1]
    IN  CASE inst.op = "Jump" -> {inst.addr}
          [] inst.op = "Split" -> {inst.addr1, inst.addr2}
          [] OTHER -> {}

RECURSIVE EpsClose(_)

\* the addresses reached from those of S by Jump and Split steps alone
EpsClose(S) ==
    LET S2 == S \cup UNION {EpsNext(a) : a \in S}
    IN  IF S2 = S THEN S ELSE EpsClose(S2)

\* no chain of Jump and Split steps comes back to where it started
NoEpsCycle == \A a \in 0..(Len(insts) - 1) : a \notin EpsClose(EpsNext(a))

SplitCount == Cardinality({k \in 1..Len(insts) : insts[k].op = "Split"})

\* C13: on a parseable pattern without a nullable Star/Plus body, eval_depth
\* started at (0, 0) returns a boolean on every text: the program has no cycle
\* of Jump and Split steps, and the Splits suspended at any time are at most one
\* per Split instruction and input position.
C13_DepthTerminates ==
    /\ []((phase = "eval" /\ is_depth /\ Regular) => <>Returned(TRUE))
    /\ []((Regular /\ Returned(TRUE)) => eval_res[TRUE].tag = "Ok")
    /\ []((Regular /\ code.tag = "Ok") => NoEpsCycle)
    /\ []((Regular /\ phase = "eval" /\ is_depth)
             => Len(calls) <= SplitCount * (Len(line) + 1))

\* C13 witness: eval_depth is returning through three suspended Splits.
C13_Witness ==
    /\ Regular
    /\ phase = "eval"
    /\ is_depth
    /\ Len(calls) >= 3
    /\ ret # None

-----------------------------------------------------------------------------
\* this step is an iteration of eval_width's loop
WidthStepTaken == phase = "eval" /\ ~is_depth /\ line' = line /\ is_depth' = is_depth

\* C14: eval_width uses its context stack LIFO: Split(a1, a2) sets pc to a1,
\* keeps sp and pushes exactly (a2, sp) on top; a resumption takes the entry on
\* top, the one pushed last among those still there; no step touches the
\* entries below the top.
C14_ContextStackIsLifo ==
    [][WidthStepTaken =>
          /\ WidthAt("Split") =>
                /\ e_pc' = Fetch(e_pc).v.addr1
                /\ e_sp' = e_sp
                /\ ctx' = Append(ctx, <<Fetch(e_pc).v.addr2, e_sp>>)
          /\ (WidthAt("Char") /\ LineGet(e_sp).tag = "Some"
                /\ LineGet(e_sp).v # Fetch(e_pc).v.c /\ ctx # <<>>) =>
                /\ e_pc' = Last(ctx)[1]
                /\ e_sp' = Last(ctx)[2]
                /\ ctx' = Front(ctx)
          /\ \/ ctx' = ctx
             \/ ctx' = Front(ctx)
             \/ Front(ctx') = ctx]_vars

\* no Jump targets address a, and the instruction before it is a Jump: only a
\* Split's second target leads to a
OnlyBySplit(a) ==
    /\ a > 0
    /\ insts[a].op = "Jump"
    /\ \A k \in 1..Len(insts) : insts[k].op = "Jump" => insts[k].addr # a

\* C14 witness: eval_width has resumed at the exit of a Star from a saved context,
\* with an older context still below it.
C14_Witness ==
    /\ phase = "eval"
    /\ ~is_depth
    /\ ctx # <<>>
    /\ OnlyBySplit(e_pc)
    /\ e_sp > 0

-----------------------------------------------------------------------------
RECURSIVE RightChain(_)

\* Or(b1, Or(b2, ... Or(b(n-1), bn))) for n >= 1 branches
RightChain(bs) ==
    IF Len(bs) = 1 THEN bs[1] ELSE ASTOr(Head(bs), RightChain(Tail(bs)))

\* the branches of the current alternation: those closed by '|', then the open one
Branches == IF seq # <<>> THEN Append(seq_or, ASTSeq(seq)) ELSE seq_or

\* the pattern has been read to its end with every group closed
AtBalancedEnd == phase = "parse" /\ i = Len(expr) /\ stack = <<>>

\* C15: folding the branches [b1, ..., bn] of an alternation gives nothing for
\* n = 0, b1 itself for n = 1 and the right-associated chain Or(b1, Or(b2, ...))
\* in pattern order for n >= 2, at the end of the pattern and at every ')';
\* parse returns Empty exactly when a balanced pattern read without error has no
\* branch.
C15_FoldIsRightChain ==
    /\ [][/\ AtBalancedEnd =>
                parsed' = IF Branches = <<>> THEN Err(Empty) ELSE Ok(RightChain(Branches))
          /\ (AboutToRead({")"}) /\ stack # <<>>) =>
                seq' = IF Branches = <<>> THEN Last(stack)[1]
                       ELSE Append(Last(stack)[1], RightChain(Branches))
          /\ FailsWith("Empty") <=> (AtBalancedEnd /\ Branches = <<>>)]_vars
    /\ [](parsed.tag = "Ok" => CharLeaves(parsed.v) = Literals(expr))

\* C15 witness: a group of three branches was folded into Or(b1, Or(b2, b3)).
C15_Witness ==
    /\ phase = "parse"
    /\ seq # <<>>
    /\ Last(seq).type = "Or"
    /\ Last(seq).e1.type = "Seq"
    /\ Last(seq).e2.type = "Or"
    /\ CharLeaves(Last(seq)) = <<"a", "b", "c">>

-----------------------------------------------------------------------------
\* the nesting depth after the first n characters of the pattern
Depth(n) == Count("(", n) - Count(")", n)

\* the position (from 1) of the '(' that the unescaped ')' at position k closes
OpenOf(k) ==
    CHOOSE j \in 1..k :
        /\ expr[j] = "(" /\ ~EscapedAt(expr, j)
        /\ Depth(j - 1) = Depth(k)
        /\ \A m \in (j + 1)..(k - 1) : Depth(m) > Depth(k)

\* the text between the '(' and the ')' at position k
GroupText(k) == SubSeq(expr, OpenOf(k) + 1, k - 1)

\* the parser has just read the ')' of a group that holds a literal
JustClosedGroup ==
    /\ phase = "parse"
    /\ i > 0
    /\ expr[i] = ")"
    /\ ~EscapedAt(expr, i)
    /\ Literals(GroupText(i)) # <<>>

\* C16: ')' makes the pair saved by the matching '(' current again: the
\* alternation context is the saved one, the concatenation context is the saved one
\* plus one element, the group's AST, or plus nothing when the group is empty; '('
\* saves the current pair on top; a postfix operator right after a non-empty group
\* wraps the whole group and leaves the elements before the '(' as they were.
C16_GroupRestoresContexts ==
    [][/\ AboutToRead({"("}) =>
             /\ stack' = Append(stack, <<seq, seq_or>>)
             /\ seq' = <<>>
             /\ seq_or' = <<>>
       /\ (AboutToRead({")"}) /\ stack # <<>>) =>
             /\ stack' = Front(stack)
             /\ seq_or' = Last(stack)[2]
             /\ IF seq = <<>> /\ seq_or = <<>>
                THEN seq' = Last(stack)[1]
                ELSE /\ Len(seq') = Len(Last(stack)[1]) + 1
                     /\ Front(seq') = Last(stack)[1]
                     /\ CharLeaves(Last(seq')) = Literals(GroupText(i + 1))
       /\ (JustClosedGroup /\ AboutToRead({"+", "*", "?"})) =>
             /\ Len(seq') = Len(seq)
             /\ Front(seq') = Front(seq)
             /\ Last(seq').type \in {"Plus", "Star", "Question"}
             /\ Last(seq').e = Last(seq)
             /\ CharLeaves(Last(seq').e) = Literals(GroupText(i))]_vars

\* C16 witness: a postfix operator has wrapped a group of two elements that follows
\* an earlier element.
C16_Witness ==
    /\ phase = "parse"
    /\ Len(seq) = 2
    /\ Last(seq).type \in {"Plus", "Star", "Question"}
    /\ Len(CharLeaves(Last(seq))) >= 2
    /\ i > 1
    /\ expr[i - 1] = ")"

-----------------------------------------------------------------------------
RECURSIVE CodeOf(_, _), CodeOfSeq(_, _)

\* the code laid out for an AST at address A, after the layouts drawn in the
\* comments of gen_question, gen_star, gen_plus and gen_or
CodeOf(a, A) ==
    CASE a.type = "Char" -> <<InstChar(a.c)>>
      [] a.type = "Seq" -> CodeOfSeq(a.v, A)
      [] a.type = "Question" ->
            LET c == CodeOf(a.e, A + 1)
            IN  <<InstSplit(A + 1, A + 1 + Len(c))>> \o c
      [] a.type = "Star" ->
            LET c == CodeOf(a.e, A + 1)
            IN  <<InstSplit(A + 1, A + 2 + Len(c))>> \o c \o <<InstJump(A)>>
      [] a.type = "Plus" ->
            LET c == CodeOf(a.e, A)
            IN  c \o <<InstSplit(A, A + Len(c) + 1)>>
      [] a.type = "Or" ->
            LET c1 == CodeOf(a.e1, A + 1)
                L2 == A + 1 + Len(c1) + 1
                c2 == CodeOf(a.e2, L2)
                L3 == L2 + Len(c2)
            IN  <<InstSplit(A + 1, L2)>> \o c1 \o <<InstJump(L3)>> \o c2

CodeOfSeq(v, A) ==
    IF v = <<>> THEN <<>>
    ELSE LET c == CodeOf(Head(v), A) IN c \o CodeOfSeq(Tail(v), A + Len(c))

\* C17: gen_or at address A emits Split(A+1, 0), then e1's code, then Jump(0)
\* and sets the Split's second target to the address after that Jump, then e2's
\* code, then sets the Jump's target to the address after e2's code; each of the
\* two patches changes that one field and nothing else already emitted; the
\* program returned for an AST is the one laid out by CodeOf, followed by Match.
C17_OrLayout ==
    /\ [][/\ GenAt("Or") =>
                /\ insts' = Append(insts, InstSplit(Len(insts) + 1, 0))
                /\ Head(Tail(work')) = TaskOrMid(Len(insts), Head(work).ast.e2)
                /\ Head(work') = TaskExpr(Head(work).ast.e1)
          /\ GenBack("or_mid") =>
                /\ insts' = [Append(insts, InstJump(0))
                                EXCEPT ![Head(work).addr + 1].addr2 = Len(insts) + 1]
                /\ insts[Head(work).addr + 1] = InstSplit(Head(work).addr + 1, 0)
                /\ Head(Tail(work')) = TaskAt("or_end", Len(insts))
                /\ Head(work') = TaskExpr(Head(work).e2)
          /\ GenBack("or_end") =>
                /\ insts' = [insts EXCEPT ![Head(work).addr + 1].addr = Len(insts)]
                /\ insts[Head(work).addr + 1] = InstJump(0)]_vars
    /\ [](code.tag = "Ok" => code.v = CodeOf(parsed.v, 0) \o <<InstMatch>>)

\* C17 witness: the program holds the code of an Or that does not start at address
\* 0 and whose second branch is more than one instruction.
C17_Witness ==
    /\ code.tag = "Ok"
    /\ \E A \in 1..(Len(code.v) - 1) :
          /\ code.v[A + 1].op = "Split"
          /\ code.v[A + 1].addr1 = A + 1
          /\ code.v[code.v[A + 1].addr2].op = "Jump"
          /\ code.v[code.v[A + 1].addr2].addr > code.v[A + 1].addr2 + 1

-----------------------------------------------------------------------------
RECURSIVE Size(_), SizeSeq(_)

\* the number of instructions gen_expr emits for an AST
Size(a) ==
    CASE a.type = "Char" -> 1
      [] a.type = "Seq" -> SizeSeq(a.v)
      [] a.type = "Question" -> 1 + Size(a.e)
      [] a.type = "Star" -> 2 + Size(a.e)
      [] a.type = "Plus" -> Size(a.e) + 1
      [] a.type = "Or" -> 2 + Size(a.e1) + Size(a.e2)

SizeSeq(v) == IF v = <<>> THEN 0 ELSE Size(Head(v)) + SizeSeq(Tail(v))

\* C18: between the steps of the generator, and so whenever a gen_* method
\* returns Ok, pc is the length of insts; the program get_code returns has one
\* Match, at its last index, and Size(ast) + 1 instructions.
C18_PcIsLength ==
    /\ phase \in {"gen", "coded", "eval"} => gen_pc = Len(insts)
    /\ code.tag = "Ok" =>
          /\ Len(code.v) = Size(parsed.v) + 1
          /\ \A k \in 1..Len(code.v) : code.v[k].op = "Match" <=> k = Len(code.v)

\* C18 witness: get_code has returned a program with two Splits, and a gen_*
\* method had returned with pc past the first of them.
C18_Witness ==
    /\ code.tag = "Ok"
    /\ gen_pc = Len(code.v)
    /\ Cardinality({k \in 1..Len(code.v) : code.v[k].op = "Split"}) >= 2
    /\ Len(code.v) >= 6

-----------------------------------------------------------------------------
\* (pc, sp) is a valid instruction address and a position within the input
InBounds(pc, sp) == pc < Len(insts) /\ sp <= Len(line)

\* C19: while eval_depth or eval_width runs on a compiled program, sp is at most
\* the input length and pc is a valid address; so are the sp and addresses of
\* every suspended Split of eval_depth and of every context of eval_width; a
\* context is saved with the sp of that moment and is never ahead of the current
\* sp.
C19_EvalStateInBounds ==
    /\ [](phase = "eval" =>
             /\ InBounds(e_pc, e_sp)
             /\ \A k \in 1..Len(ctx) : InBounds(ctx[k][1], ctx[k][2]) /\ ctx[k][2] <= e_sp
             /\ \A k \in 1..Len(calls) :
                   InBounds(calls[k].pc, calls[k].sp) /\ InBounds(calls[k].addr2, calls[k].sp))
    /\ [][(WidthStepTaken /\ Len(ctx') > Len(ctx)) => Last(ctx')[2] = e_sp]_vars

\* C19 witness: eval_width stands at the end of the input with two contexts saved,
\* the older one at an earlier position.
C19_Witness ==
    /\ phase = "eval"
    /\ ~is_depth
    /\ Len(ctx) >= 2
    /\ e_sp = Len(line)
    /\ ctx[1][2] < e_sp

-----------------------------------------------------------------------------
\* one iteration of eval_width's loop without lines 130-133
WidthIterNoTrip(pc, sp, cx) ==
    LET next == Fetch(pc)
    IN  IF next.tag = "None" THEN Return(Err("InvalidPC"))
        ELSE LET inst == next.v
             IN  CASE inst.op = "Char" -> WidthChar(inst.c, pc, sp, cx)
                   [] inst.op = "Match" -> Return(Ok(TRUE))
                   [] inst.op = "Jump" -> Go(inst.addr, sp, cx)
                   [] inst.op = "Split" -> WidthSplit(inst.addr1, inst.addr2, sp, cx)

\* the push and pop of lines 130-133 are reached with a non-empty stack
TripTaken ==
    /\ phase = "eval"
    /\ ~is_depth
    /\ Fetch(e_pc).tag = "Some"
    /\ Fetch(e_pc).v.op \in {"Char", "Jump"}
    /\ WidthIterNoTrip(e_pc, e_sp, ctx).k = "go"
    /\ WidthIterNoTrip(e_pc, e_sp, ctx).ctx # <<>>

\* C20: the push and pop at the end of an eval_width iteration leave pc, sp and the
\* context stack as they were before them, so every iteration, and with it every
\* result and every run, is the same as without them.
C20_RoundTripIsNoOp ==
    (phase = "eval" /\ ~is_depth) =>
        LET r == WidthIterNoTrip(e_pc, e_sp, ctx)
        IN  /\ r.k = "go" => WidthRoundTrip(r.pc, r.sp, r.ctx) = r
            /\ WidthIter(e_pc, e_sp, ctx) = r

\* C20 witness: eval_width is about to consume a character with contexts saved, so
\* the push and pop will run on the advanced (pc, sp).
C20_Witness ==
    /\ TripTaken
    /\ WidthAt("Char")
    /\ ~CharFails(Fetch(e_pc).v.c, e_sp)
    /\ Len(ctx) >= 2

====
